---- MODULE Spec2Model ----
(***************************************************************************)
(* A model of the LegiScan archive-to-corpus pipeline:                     *)
(*   datasources/cleaning/concat_with_join_legiscan.py                     *)
(*   datasources/cleaning/concat_bills.py                                  *)
(*   scripts/join_legiscan_csvs.py                                         *)
(*   scripts/concat_legiscan_combined.py                                   *)
(* Each component of the pipeline has its own specification over its own   *)
(* group of variables; the variables of the other components stay idle.    *)
(***************************************************************************)
EXTENDS Integers, Sequences, FiniteSets, TLC

VARIABLES
    \* ---- Safe Extractor + Archive Resolver -----------------------------
    input,      \* input_path: the final path component given to resolve_root_dir
    archive,    \* z.infolist(): the entries of the archive at zip_path
    zipExists,  \* zip_path.exists()
    zipMtime,   \* zip_path.stat().st_mtime
    dirMtime,   \* dir_path.stat().st_mtime
    dirs,       \* the directories of the file system (absolute paths)
    files,      \* the regular files of the file system (absolute paths)
    now,        \* the clock that stamps modification times
    pc,         \* position of resolve_root_dir / safe_extract_zip
    idx,        \* index of the next member of z.infolist()
    written,    \* every path created or written by safe_extract_zip so far
    root_dir,   \* the value returned by resolve_root_dir
    calls,      \* number of calls of resolve_root_dir so far
    \* ---- Dataset Discovery ---------------------------------------------
    layout,     \* what each directory of the tree under root holds
    lack,       \* the required file that incomplete directories lack
    scanned,    \* the directories whose entries root.rglob("*") has yielded
    found,      \* dirs: the list discover_csv_dirs builds
    dpc,        \* position of discover_csv_dirs
    \* ---- Per-Bill Aggregator -------------------------------------------
    dataset,    \* the six tables read from csv_dir, and csv_dir itself
    outfile,    \* the records result.to_csv(out_path) wrote, <<>> before
    apc,        \* position of process_csv_dir
    \* ---- Corpus Builder, raw streaming mode (stream_concat) ------------
    bills_files,   \* the files root_dir.rglob("CSV/bills.csv") finds, by path
    bills_paths,   \* sorted(root_dir.rglob("CSV/bills.csv"))
    concat_out,    \* the file at output_path
    next_path,     \* index in bills_paths of the file the loop is at
    header_written,
    total_rows,
    spc,           \* position of stream_concat
    \* ---- Corpus Builder, aggregate mode (concat_legiscan_combined) -----
    csv_files,     \* the files of sorted(INPUT_PATH.glob("*.csv")), in order
    all_bills,     \* the frames read so far
    next_csv,      \* index in csv_paths of the file the loop is at
    saved,         \* the file at SAVE_PATH
    before,
    after,
    rpc,           \* position of the script
    \* ---- main() of concat_with_join_legiscan.py ------------------------
    filenames,     \* args.filenames, each with what resolving and walking it gives
    next_input,    \* index in args.filenames of the input the first loop is at
    csv_dirs,      \* the datasets gathered from all inputs
    next_dir,      \* index in csv_dirs of the dataset the second loop is at
    rows_total,    \* total_rows
    outputs,       \* the files of OUTPUT_DIR, by name
    combined_file, \* the file at COMBINED_PATH
    log,           \* what the run printed, line by line
    mpc,           \* position of main
    \* ---- main() of concat_bills.py -------------------------------------
    args,          \* the input with what resolving it gives, and args.overwrite
    stdin,         \* the line input() reads, or that there is none
    prompted,      \* whether "Overwrite? (y/n): " was shown
    status,        \* the exit status, -1 while the run goes on
    bpc            \* position of main

arcVars == <<input, archive, zipExists, zipMtime, dirMtime, dirs, files, now,
             pc, idx, written, root_dir, calls>>

discVars == <<layout, lack, scanned, found, dpc>>

aggVars == <<dataset, outfile, apc>>

streamVars == <<bills_files, bills_paths, concat_out, next_path, header_written,
                total_rows, spc>>

dedupVars == <<csv_files, all_bills, next_csv, saved, before, after, rpc>>

mainVars == <<filenames, next_input, csv_dirs, next_dir, rows_total, outputs,
              combined_file, log, mpc>>

rawVars == <<args, stdin, prompted, status, bpc>>

vars == <<arcVars, discVars, aggVars, streamVars, dedupVars, mainVars, rawVars>>

\* the variables each component leaves alone
notArc == <<discVars, aggVars, streamVars, dedupVars, mainVars, rawVars>>

notDisc == <<arcVars, aggVars, streamVars, dedupVars, mainVars, rawVars>>

notAgg == <<arcVars, discVars, streamVars, dedupVars, mainVars, rawVars>>

notStream == <<arcVars, discVars, aggVars, dedupVars, mainVars, rawVars>>

notDedup == <<arcVars, discVars, aggVars, streamVars, mainVars, rawVars>>

notMain == <<arcVars, discVars, aggVars, streamVars, dedupVars, rawVars>>

notRaw == <<arcVars, discVars, aggVars, dedupVars, mainVars>>

(***************************************************************************)
(* Generic helpers on sequences.                                           *)
(***************************************************************************)
SeqsUpTo(S, n) == UNION {[1..k -> S] : k \in 0..n}

IsPrefix(p, q) == Len(p) <= Len(q) /\ SubSeq(q, 1, Len(p)) = p

Prefixes(p) == {SubSeq(p, 1, k) : k \in 0..Len(p)}

Butlast(p) == SubSeq(p, 1, Len(p) - 1)

(***************************************************************************)
(* Paths.  A path component is a name with its suffix split off, as        *)
(* pathlib's .stem and .suffix see it; a path is a sequence of components. *)
(***************************************************************************)
N(s) == [stem |-> s, suffix |-> ""]

NS(s, x) == [stem |-> s, suffix |-> x]

\* Path.with_suffix: replace the suffix of the final component
with_suffix(name, x) == [stem |-> name.stem, suffix |-> x]

PARDIR == N("..")

\* Path.resolve() on an absolute path of a tree without symbolic links:
\* ".." drops the component before it, and the root is its own parent
RECURSIVE ResolveFrom(_, _)
ResolveFrom(acc, parts) ==
    IF parts = <<>> THEN acc
    ELSE IF Head(parts) = PARDIR
         THEN ResolveFrom(IF acc = <<>> THEN <<>> ELSE Butlast(acc), Tail(parts))
         ELSE ResolveFrom(Append(acc, Head(parts)), Tail(parts))

MutResolve(p) == p

resolve(p) == ResolveFrom(<<>>, p)

\* the working directory the input path lives in
CWD == <<N("w")>>

\* dest_dir / member_path: an absolute right operand replaces the left one
Join(base, member) == IF member.abs THEN member.parts ELSE base \o member.parts

MutWithin(base, target) == TRUE

\* is_within_directory: target.resolve().relative_to(base.resolve()) succeeds
is_within_directory(base, target) == IsPrefix(resolve(base), resolve(target))

(***************************************************************************)
(* Archive members.  filename is kept as its components; a directory       *)
(* member is one whose filename ends with "/".                             *)
(***************************************************************************)
Member(parts, abs, isdir) == [parts |-> parts, abs |-> abs, isdir |-> isdir]

MACOSX == N("__MACOSX")

DS_Store == N(".DS_Store")

\* "__MACOSX" in member_path.parts
InMacosx(m) == \E i \in 1..Len(m.parts) : m.parts[i] = MACOSX

\* member.filename.endswith(".DS_Store")
EndsWithDSStore(m) ==
    /\ ~m.isdir
    /\ m.parts # <<>>
    /\ LET last == m.parts[Len(m.parts)]
       IN  \/ last.suffix = ".DS_Store"
           \/ last.suffix = "" /\ last.stem = ".DS_Store"

HasTraversal(m) == \E i \in 1..Len(m.parts) : m.parts[i] = PARDIR

MutIsJunk(m) == InMacosx(m) \/ EndsWithDSStore(m) \/ HasTraversal(m)

\* the two "Skip macOS junk" tests
IsJunk(m) == InMacosx(m) \/ EndsWithDSStore(m)

\* the entries archives are built from
EntryPool ==
    { Member(<<N("a")>>, FALSE, FALSE),                             \* a
      Member(<<N("a")>>, FALSE, TRUE),                              \* a/
      Member(<<N("a"), N("b")>>, FALSE, FALSE),                     \* a/b
      Member(<<PARDIR, N("a")>>, FALSE, FALSE),                     \* ../a
      Member(<<PARDIR, N("b")>>, FALSE, TRUE),                      \* ../b/
      Member(<<N("a"), PARDIR, N("b")>>, FALSE, FALSE),             \* a/../b
      Member(<<N("a"), PARDIR, PARDIR, N("x"), N("b")>>, FALSE, FALSE), \* a/../../x/b
      Member(<<MACOSX, PARDIR, PARDIR, N("a")>>, FALSE, FALSE),     \* __MACOSX/../../a
      Member(<<PARDIR, DS_Store>>, FALSE, FALSE),                   \* ../.DS_Store
      Member(<<N("e")>>, TRUE, FALSE) }                             \* /e

MaxEntries == 2

MaxCalls == 2

Inputs == {NS("x", ".zip"), N("x"), NS("x", ".v1")}

\* resolve_root_dir's two paths
zip_name(inp) == IF inp.suffix = ".zip" THEN inp ELSE with_suffix(inp, ".zip")

dir_name(inp) == IF inp.suffix = ".zip" THEN with_suffix(inp, "") ELSE inp

zip_path == CWD \o <<zip_name(input)>>

dir_path == CWD \o <<dir_name(input)>>

dirExists == dir_path \in dirs \/ dir_path \in files

Under(base, S) == {p \in S : IsPrefix(base, p)}

(***************************************************************************)
(* Initial states of the resolver: any combination of archive / directory  *)
(* present, either one the newer, the directory empty or holding a file    *)
(* from an earlier extraction.                                             *)
(***************************************************************************)
OldFile(inp) == CWD \o <<dir_name(inp), N("old")>>

ArcInit ==
    /\ input \in Inputs
    /\ zipExists \in BOOLEAN
    /\ zipMtime \in IF zipExists THEN 1..2 ELSE {0}
    /\ archive \in IF zipExists THEN SeqsUpTo(EntryPool, MaxEntries) ELSE {<<>>}
    /\ \E present \in BOOLEAN, old \in BOOLEAN :
          /\ dirs = {<<>>, CWD} \cup (IF present THEN {CWD \o <<dir_name(input)>>} ELSE {})
          /\ files = IF present /\ old THEN {OldFile(input)} ELSE {}
          /\ ~present => ~old
          /\ dirMtime \in IF present THEN 1..2 ELSE {0}
    /\ now = 3
    /\ pc = "idle"
    /\ idx = 0
    /\ written = {}
    /\ root_dir = <<>>
    /\ calls = 0

(***************************************************************************)
(* resolve_root_dir up to its return, its raise, or the call of            *)
(* safe_extract_zip.                                                       *)
(***************************************************************************)
\* shutil.rmtree(dir_path); dir_path.mkdir(parents=True, exist_ok=True)
StartExtract ==
    /\ dirs' = (dirs \ Under(dir_path, dirs)) \cup {dir_path}
    /\ files' = files \ Under(dir_path, files)
    /\ dirMtime' = now
    /\ pc' = "extracting"
    /\ idx' = 1
    /\ UNCHANGED root_dir

ReturnDir ==
    /\ pc' = "returned"
    /\ root_dir' = dir_path
    /\ idx' = 0                      \* safe_extract_zip is not called
    /\ UNCHANGED <<dirs, files, dirMtime>>

MutNewer == zipMtime >= dirMtime

\* zip_path.stat().st_mtime > dir_path.stat().st_mtime
Newer == zipMtime > dirMtime

ResolveCall ==
    /\ pc \in {"idle", "returned", "no_source", "unsafe", "os_error"}
    /\ calls < MaxCalls
    /\ calls' = calls + 1
    /\ now' = now + 1
    /\ IF zipExists
       THEN IF dirExists
            THEN IF Newer THEN StartExtract ELSE ReturnDir
            ELSE StartExtract
       ELSE IF dirExists
            THEN ReturnDir
            ELSE /\ pc' = "no_source"      \* raise FileNotFoundError
                 /\ idx' = 0
                 /\ UNCHANGED <<dirs, files, dirMtime, root_dir>>
    /\ UNCHANGED <<input, archive, zipExists, zipMtime, written>>
    /\ UNCHANGED notArc

(***************************************************************************)
(* safe_extract_zip: one step per member of the archive.                   *)
(***************************************************************************)
\* out_path = (dest_dir / member_path).resolve()
out_path(m) == resolve(Join(dir_path, m))

\* mkdir(parents=True, exist_ok=True) of p fails when p or one of its
\* ancestors is a regular file
MkdirOk(p) == Prefixes(p) \cap files = {}

\* the directory's modification time moves when an entry is added to it
Touch(created) ==
    IF \E p \in created : p # <<>> /\ Butlast(p) = dir_path THEN now ELSE dirMtime

ExtractMember ==
    /\ pc = "extracting"
    /\ idx <= Len(archive)
    /\ LET m == archive[idx]
           out == out_path(m)
       IN  IF IsJunk(m)
           THEN \* continue
                /\ idx' = idx + 1
                /\ UNCHANGED <<pc, dirs, files, written, dirMtime>>
           ELSE IF ~is_within_directory(dir_path, out)
           THEN \* raise RuntimeError("Unsafe path detected in zip (zip-slip)")
                /\ pc' = "unsafe"
                /\ UNCHANGED <<idx, dirs, files, written, dirMtime>>
           ELSE IF m.isdir
           THEN IF MkdirOk(out)
                THEN /\ dirs' = dirs \cup Prefixes(out)
                     /\ written' = written \cup (Prefixes(out) \ dirs)
                     /\ dirMtime' = Touch(Prefixes(out) \ dirs)
                     /\ idx' = idx + 1
                     /\ UNCHANGED <<pc, files>>
                ELSE /\ pc' = "os_error"
                     /\ UNCHANGED <<idx, dirs, files, written, dirMtime>>
           ELSE IF out # <<>> /\ MkdirOk(Butlast(out))
                THEN LET made == Prefixes(Butlast(out)) \ dirs
                     IN  IF out \in dirs
                         THEN \* open(out_path, "wb") on a directory
                              /\ dirs' = dirs \cup made
                              /\ written' = written \cup made
                              /\ dirMtime' = Touch(made)
                              /\ pc' = "os_error"
                              /\ UNCHANGED <<idx, files>>
                         ELSE /\ dirs' = dirs \cup made
                              /\ files' = files \cup {out}
                              /\ written' = written \cup made \cup {out}
                              /\ dirMtime' = Touch(made \cup ({out} \ files))
                              /\ idx' = idx + 1
                              /\ UNCHANGED pc
                ELSE /\ pc' = "os_error"
                     /\ UNCHANGED <<idx, dirs, files, written, dirMtime>>
    /\ UNCHANGED <<input, archive, zipExists, zipMtime, now, root_dir, calls>>
    /\ UNCHANGED notArc

\* the loop over z.infolist() is over: resolve_root_dir returns dir_path
ExtractDone ==
    /\ pc = "extracting"
    /\ idx > Len(archive)
    /\ pc' = "returned"
    /\ root_dir' = dir_path
    /\ UNCHANGED <<input, archive, zipExists, zipMtime, dirMtime, dirs, files,
                   now, idx, written, calls>>
    /\ UNCHANGED notArc

ArcNext == ResolveCall \/ ExtractMember \/ ExtractDone

ArcIdle ==
    /\ input = N("x")
    /\ archive = <<>>
    /\ zipExists = FALSE
    /\ zipMtime = 0
    /\ dirMtime = 0
    /\ dirs = {}
    /\ files = {}
    /\ now = 0
    /\ pc = "idle"
    /\ idx = 0
    /\ written = {}
    /\ root_dir = <<>>
    /\ calls = 0

(***************************************************************************)
(* Dataset Discovery.  Names are sequences of character codes, so that     *)
(* the order list.sort() puts paths in can be computed; a path is the      *)
(* sequence of its names below root.                                       *)
(***************************************************************************)
bills_csv == <<98, 105, 108, 108, 115, 46, 99, 115, 118>>

people_csv == <<112, 101, 111, 112, 108, 101, 46, 99, 115, 118>>

sponsors_csv == <<115, 112, 111, 110, 115, 111, 114, 115, 46, 99, 115, 118>>

history_csv == <<104, 105, 115, 116, 111, 114, 121, 46, 99, 115, 118>>

documents_csv == <<100, 111, 99, 117, 109, 101, 110, 116, 115, 46, 99, 115, 118>>

rollcalls_csv == <<114, 111, 108, 108, 99, 97, 108, 108, 115, 46, 99, 115, 118>>

REQUIRED_FILES ==
    <<bills_csv, people_csv, sponsors_csv, history_csv, documents_csv, rollcalls_csv>>

Range(f) == {f[i] : i \in DOMAIN f}

\* str.__lt__: lexicographic on character codes
RECURSIVE StrLess(_, _)
StrLess(a, b) ==
    IF b = <<>> THEN FALSE
    ELSE IF a = <<>> THEN TRUE
    ELSE IF Head(a) # Head(b) THEN Head(a) < Head(b)
    ELSE StrLess(Tail(a), Tail(b))

\* PurePath.__lt__: lexicographic on the sequence of names
RECURSIVE PathLess(_, _)
PathLess(p, q) ==
    IF q = <<>> THEN FALSE
    ELSE IF p = <<>> THEN TRUE
    ELSE IF Head(p) # Head(q) THEN StrLess(Head(p), Head(q))
    ELSE PathLess(Tail(p), Tail(q))

\* list.sort() of a list of distinct paths
RECURSIVE SortPaths(_)
SortPaths(S) ==
    IF S = {} THEN <<>>
    ELSE LET least == CHOOSE p \in S : \A q \in S \ {p} : PathLess(p, q)
         IN  <<least>> \o SortPaths(S \ {least})

\* the directories a tree may have below root: a-b, a, a/c, b
DiscDirs == {<<<<97, 45, 98>>>>, <<<<97>>>>, <<<<97>>, <<99>>>>, <<<<98>>>>}

ROOT == <<>>

\* what a directory holds: nothing, all six files, all but `lack`, or all
\* but `lack` with a subdirectory of that name in its place
Holdings == {"empty", "complete", "partial", "bogus"}

Exists(d) == layout[d] # "absent"

TreeDirs ==
    {d \in DiscDirs \cup {ROOT} : Exists(d)}
       \cup {Append(d, lack) : d \in {e \in DiscDirs \cup {ROOT} : layout[e] = "bogus"}}

TreeFiles ==
    {Append(d, f) : d \in {e \in DiscDirs \cup {ROOT} : layout[e] = "complete"},
                    f \in Range(REQUIRED_FILES)}
       \cup {Append(d, f) : d \in {e \in DiscDirs \cup {ROOT} :
                                      layout[e] \in {"partial", "bogus"}},
                            f \in Range(REQUIRED_FILES) \ {lack}}

is_dir(p) == p \in TreeDirs

is_file(p) == p \in TreeFiles

MutQualifies(p) ==
    is_dir(p) /\ \A i \in DOMAIN REQUIRED_FILES :
                    is_file(Append(p, REQUIRED_FILES[i])) \/ is_dir(Append(p, REQUIRED_FILES[i]))

\* dirpath.is_dir() and all((dirpath / f).is_file() for f in REQUIRED_FILES)
Qualifies(p) ==
    is_dir(p) /\ \A i \in DOMAIN REQUIRED_FILES : is_file(Append(p, REQUIRED_FILES[i]))

\* the entries of directory d, as the walk of rglob("*") yields them
Entries(d) == {p \in TreeDirs \cup TreeFiles : p # <<>> /\ Butlast(p) = d}

Perms(S) == {f \in [1..Cardinality(S) -> S] : \A i, j \in DOMAIN f : f[i] = f[j] => i = j}

DiscInit ==
    /\ lack \in Range(REQUIRED_FILES)
    /\ layout \in [DiscDirs \cup {ROOT} -> Holdings \cup {"absent"}]
    /\ layout[ROOT] \in {"empty", "complete"}
    /\ \A d \in DiscDirs : layout[Butlast(d)] = "absent" => layout[d] = "absent"
    /\ scanned = {}
    /\ found = <<>>
    /\ dpc = "walking"

DiscIdle ==
    /\ lack = bills_csv
    /\ layout = [d \in DiscDirs \cup {ROOT} |-> "absent"]
    /\ scanned = {}
    /\ found = <<>>
    /\ dpc = "idle"

\* for dirpath in root.rglob("*"): one directory of the walk is listed, root
\* first and a directory before its subdirectories; the entries come in the
\* order the file system lists them, and the qualifying ones are appended
ScanDir ==
    /\ dpc = "walking"
    /\ \E d \in TreeDirs \ scanned :
          /\ d = ROOT \/ Butlast(d) \in scanned
          /\ scanned' = scanned \cup {d}
          /\ \E order \in Perms({p \in Entries(d) : Qualifies(p)}) :
                found' = found \o order
    /\ UNCHANGED <<layout, lack, dpc>>
    /\ UNCHANGED notDisc

MutSorted(S) == S

\* dirs.sort(); return dirs
Sorted(S) == SortPaths(Range(S))

SortAndReturn ==
    /\ dpc = "walking"
    /\ scanned = TreeDirs
    /\ found' = Sorted(found)
    /\ dpc' = "returned"
    /\ UNCHANGED <<layout, lack, scanned>>
    /\ UNCHANGED notDisc

DiscNext == ScanDir \/ SortAndReturn

(***************************************************************************)
(* Per-Bill Aggregator.  A cell of a DataFrame is an integer, a string or  *)
(* the missing value; key columns (bill_id, people_id, position,           *)
(* sequence) hold plain integers, and a date is text or missing.           *)
(***************************************************************************)
NaN == [nan |-> TRUE]

I(n) == [int |-> n]

S(s) == [str |-> s]

\* a cell of a text column that is compared: its characters, as codes
T(codes) == [text |-> codes]

\* re.sub(r"[^A-Za-z]", "", s)
letters_only(s) == SelectSeq(s, LAMBDA c : c \in 65..90 \/ c \in 97..122)

\* Series.dropna()
dropna(cells) == SelectSeq(cells, LAMBDA c : c # NaN)

MutUnique(cells) == cells

\* Series.unique(): the distinct values in first-seen order
unique(cells) ==
    LET firsts == {i \in DOMAIN cells : \A j \in 1..(i - 1) : cells[j] # cells[i]}
        nth(k) == CHOOSE i \in firsts : Cardinality({j \in firsts : j < i}) = k - 1
    IN  [k \in 1..Cardinality(firsts) |-> cells[nth(k)]]

\* " | ".join(strings)
RECURSIVE join(_)
join(cells) ==
    IF cells = <<>> THEN ""
    ELSE IF Len(cells) = 1 THEN cells[1].str
    ELSE cells[1].str \o " | " \o join(Tail(cells))

\* DataFrame.sort_values on several columns: a stable sort
sort_values(rows, Less(_, _)) ==
    LET n == Len(rows)
        rank(k) == 1 + Cardinality({j \in 1..n :
                          \/ Less(rows[j], rows[k])
                          \/ ~Less(rows[k], rows[j]) /\ j < k})
    IN  [i \in 1..n |-> rows[CHOOSE k \in 1..n : rank(k) = i]]

\* the rows of one group of groupby("bill_id"), in the order of the frame
Group(rows, b) == SelectSeq(rows, LAMBDA r : r.bill_id = b)

GroupKeys(rows) == {rows[i].bill_id : i \in DOMAIN rows}

Column(rows, c) == [i \in DOMAIN rows |-> rows[i][c]]

RECURSIVE SumCells(_)
SumCells(cells) ==
    IF cells = <<>> THEN 0 ELSE Head(cells).int + SumCells(Tail(cells))

\* groupby(...).apply(_agg) of a frame without rows calls _agg for no
\* group: the result keeps the columns of the frame it was given
Frame(cols, rows) == [cols |-> cols, rows |-> rows]

\* sponsors.merge(people[["people_id", "name", "party"]], on="people_id", how="left")
MergePeople(sponsors, people) ==
    [i \in DOMAIN sponsors |->
        [bill_id |-> sponsors[i].bill_id,
         people_id |-> sponsors[i].people_id,
         position |-> sponsors[i].position,
         name |-> IF sponsors[i].people_id \in DOMAIN people
                  THEN people[sponsors[i].people_id].name ELSE NaN,
         party |-> IF sponsors[i].people_id \in DOMAIN people
                   THEN people[sponsors[i].people_id].party ELSE NaN]]

MutSponsorLess(a, b) == a.bill_id < b.bill_id

SponsorLess(a, b) ==
    \/ a.bill_id < b.bill_id
    \/ a.bill_id = b.bill_id /\ a.position < b.position

MutPrimary(group) == Column(group, "name")

\* group.loc[group["position"] == 1, "name"]
Primary(group) == Column(SelectSeq(group, LAMBDA r : r.position = 1), "name")

aggregate_sponsors(sponsors, people) ==
    LET merged == sort_values(MergePeople(sponsors, people), SponsorLess)
        _agg(group) ==
            [sponsor_names |-> S(join(dropna(Column(group, "name")))),
             sponsor_parties |-> S(join(dropna(Column(group, "party")))),
             primary_sponsor |-> IF Len(Primary(group)) > 0
                                 THEN Primary(group)[1] ELSE S(""),
             sponsor_count |-> I(Len(group))]
    IN  IF merged = <<>>
        THEN Frame({"people_id", "position", "name", "party"}, <<>>)
        ELSE Frame({"sponsor_names", "sponsor_parties", "primary_sponsor", "sponsor_count"},
                   [b \in GroupKeys(merged) |-> _agg(Group(merged, b))])

\* the order of the date column, read as text: str.__lt__, and
\* na_position="last" for a missing date
DateLess(a, b) ==
    IF a = NaN THEN FALSE
    ELSE IF b = NaN THEN TRUE
    ELSE StrLess(a.text, b.text)

MutHistoryLess(a, b) ==
    \/ a.bill_id < b.bill_id
    \/ a.bill_id = b.bill_id /\ DateLess(a.date, b.date)

\* history.sort_values(["bill_id", "date", "sequence"])
HistoryLess(a, b) ==
    \/ a.bill_id < b.bill_id
    \/ a.bill_id = b.bill_id /\ DateLess(a.date, b.date)
    \/ a.bill_id = b.bill_id /\ a.date = b.date /\ a.sequence < b.sequence

aggregate_history(history) ==
    LET sorted == sort_values(history, HistoryLess)
        _agg(group) ==
            [action_count |-> I(Len(group)),
             last_history_action |-> group[Len(group)].action]
    IN  IF sorted = <<>>
        THEN Frame({"date", "sequence", "action"}, <<>>)
        ELSE Frame({"action_count", "last_history_action"},
                   [b \in GroupKeys(sorted) |-> _agg(Group(sorted, b))])

aggregate_documents(documents) ==
    LET _agg(group) ==
            [document_count |-> I(Len(group)),
             document_types |-> S(join(unique(dropna(Column(group, "document_type"))))),
             document_urls |-> S(join(dropna(Column(group, "url"))))]
    IN  IF documents = <<>>
        THEN Frame({"document_type", "url"}, <<>>)
        ELSE Frame({"document_count", "document_types", "document_urls"},
                   [b \in GroupKeys(documents) |-> _agg(Group(documents, b))])

MutCount(cells) == Len(cells) + 1

\* the "count" aggregation: the number of values that are not missing
Count(cells) == Len(dropna(cells))

\* the "sum" aggregation: missing values are skipped
Sum(cells) == SumCells(dropna(cells))

aggregate_rollcalls(rollcalls) ==
    Frame({"rollcall_count", "total_yea", "total_nay"},
          [b \in GroupKeys(rollcalls) |->
              LET group == Group(rollcalls, b)
              IN  [rollcall_count |-> I(Count(Column(group, "roll_call_id"))),
                   total_yea |-> I(Sum(Column(group, "yea"))),
                   total_nay |-> I(Sum(Column(group, "nay")))]])

\* result.merge(agg, on="bill_id", how="left"): rows are functions of the
\* column names; a bill without a group gets the missing value in each column
Merge(result, agg) ==
    [i \in DOMAIN result |->
        LET b == result[i]["bill_id"].int
        IN  [c \in agg.cols |-> IF b \in DOMAIN agg.rows THEN agg.rows[b][c] ELSE NaN]
               @@ result[i]]

count_cols ==
    {"sponsor_count", "action_count", "document_count", "rollcall_count",
     "total_yea", "total_nay"}

MutFillCounts(result) == result

\* for col in count_cols: if col in result.columns:
\*     result[col] = result[col].fillna(0).astype(int)
FillCounts(result) ==
    [i \in DOMAIN result |->
        [c \in DOMAIN result[i] |->
            IF c \in count_cols /\ result[i][c] = NaN THEN I(0) ELSE result[i][c]]]

\* DataFrame.to_csv: the missing value is written as the empty field
to_csv(result) ==
    [i \in DOMAIN result |->
        [c \in DOMAIN result[i] |-> IF result[i][c] = NaN THEN S("") ELSE result[i][c]]]

\* csv_dir.parent.parent.name
StateDir(csv_dir) == csv_dir[Len(csv_dir) - 2]

\* csv_dir.parent.name
SessionDir(csv_dir) == csv_dir[Len(csv_dir) - 1]

\* the frame process_csv_dir writes for a dataset whose tables it can read
Aggregated(ds) ==
    LET state_code == letters_only(StateDir(ds.csv_dir))
        result0 == [i \in DOMAIN ds.bills |->
                      [state |-> [name |-> state_code], bill_id |-> I(ds.bills[i])]]
        result1 == Merge(result0, aggregate_sponsors(ds.sponsors, ds.people))
        result2 == Merge(result1, aggregate_history(ds.history))
        result3 == Merge(result2, aggregate_documents(ds.documents))
        result4 == Merge(result3, aggregate_rollcalls(ds.rollcalls))
    IN  FillCounts(result4)

(***************************************************************************)
(* The datasets the aggregator is run on: one child table ranges over all  *)
(* tables of up to MaxRows rows, the other three hold a sample row for     *)
(* bill 1, so that bill 2 has no row in them.                              *)
(***************************************************************************)
MaxRows == 2

BillIds == {1, 2}

BillsPool == {<<1, 2>>, <<2, 1>>, <<2>>}

\* people.csv keyed by people_id; people_id 3 is in no table
PeoplePool ==
    { (1 :> [name |-> S("Ann"), party |-> S("D")]) @@ (2 :> [name |-> S("Bob"), party |-> NaN]),
      (1 :> [name |-> S("Ann"), party |-> S("D")]) @@ (2 :> [name |-> NaN, party |-> S("R")]) }

SponsorRows == [bill_id : BillIds, people_id : {1, 2, 3}, position : {1, 2}]

\* "2021-01-05" and "2021-01-11"
Date0105 == T(<<50, 48, 50, 49, 45, 48, 49, 45, 48, 53>>)

Date0111 == T(<<50, 48, 50, 49, 45, 48, 49, 45, 49, 49>>)

HistoryRows ==
    [bill_id : BillIds, date : {Date0105, Date0111, NaN}, sequence : {1, 2},
     action : {S("intro"), S("pass")}]

DocumentRows ==
    [bill_id : BillIds, document_type : {S("text"), S("amend"), NaN},
     url : {S("u1"), S("u2"), NaN}]

RollcallRows ==
    [bill_id : BillIds, roll_call_id : {I(7), NaN}, yea : {I(1), I(2), NaN},
     nay : {I(0), I(3)}]

SampleSponsors == <<[bill_id |-> 1, people_id |-> 1, position |-> 1]>>

SampleHistory == <<[bill_id |-> 1, date |-> Date0105, sequence |-> 1, action |-> S("intro")]>>

SampleDocuments == <<[bill_id |-> 1, document_type |-> S("text"), url |-> S("u1")]>>

SampleRollcalls == <<[bill_id |-> 1, roll_call_id |-> I(7), yea |-> I(2), nay |-> I(3)]>>

SamplePeople == (1 :> [name |-> S("Ann"), party |-> S("D")])

\* <root>/<state>/<session-folder>/csv, relative to root: AK/s/csv and A1/s/csv
CsvDirs == {<<<<65, 75>>, <<115>>, <<99, 115, 118>>>>, <<<<65, 49>>, <<115>>, <<99, 115, 118>>>>}

Dataset(dir, bills, people, sponsors, history, documents, rollcalls, broken) ==
    [csv_dir |-> dir, bills |-> bills, people |-> people, sponsors |-> sponsors,
     history |-> history, documents |-> documents, rollcalls |-> rollcalls,
     broken |-> broken]

AggInit ==
    /\ \E d \in CsvDirs, b \in BillsPool :
          \/ \E p \in PeoplePool, sp \in SeqsUpTo(SponsorRows, MaxRows) :
                dataset = Dataset(d, b, p, sp, SampleHistory, SampleDocuments,
                                  SampleRollcalls, FALSE)
          \/ \E h \in SeqsUpTo(HistoryRows, MaxRows) :
                dataset = Dataset(d, b, SamplePeople, SampleSponsors, h,
                                  SampleDocuments, SampleRollcalls, FALSE)
          \/ \E dc \in SeqsUpTo(DocumentRows, MaxRows) :
                dataset = Dataset(d, b, SamplePeople, SampleSponsors, SampleHistory,
                                  dc, SampleRollcalls, FALSE)
          \/ \E rc \in SeqsUpTo(RollcallRows, MaxRows) :
                dataset = Dataset(d, b, SamplePeople, SampleSponsors, SampleHistory,
                                  SampleDocuments, rc, FALSE)
          \* a table that cannot be parsed, or that lacks a column the code reads
          \/ dataset = Dataset(d, b, SamplePeople, SampleSponsors, SampleHistory,
                               SampleDocuments, SampleRollcalls, TRUE)
    /\ outfile = <<>>
    /\ apc = "ready"

AggIdle ==
    /\ dataset = <<>>
    /\ outfile = <<>>
    /\ apc = "idle"

\* process_csv_dir(csv_dir, out_path) on a dataset it can read and aggregate
ProcessCsvDir ==
    /\ apc = "ready"
    /\ ~dataset.broken
    /\ outfile' = to_csv(Aggregated(dataset))
    /\ apc' = "written"
    /\ UNCHANGED dataset
    /\ UNCHANGED notAgg

\* pd.read_csv or an aggregate_* raises: nothing is written
ProcessRaises ==
    /\ apc = "ready"
    /\ dataset.broken
    /\ apc' = "raised"
    /\ UNCHANGED <<dataset, outfile>>
    /\ UNCHANGED notAgg

AggNext == ProcessCsvDir \/ ProcessRaises

(***************************************************************************)
(* Corpus Builder, raw streaming mode: stream_concat of concat_bills.py.   *)
(* A csv file is its header row and its data rows, a row the sequence of   *)
(* its fields, a field a sequence of character codes.  A file without a    *)
(* header line is the empty file.                                          *)
(***************************************************************************)
MaxFileRows == 2

CSV == <<67, 83, 86>>

\* root_dir, and the bills.csv files of the archive layout
\* <root>/<state>/<session-folder>/CSV/bills.csv: AK/s, A1/s, AK/t
RootDir == <<<<100>>>>

BillsPaths ==
    { RootDir \o <<st, se, CSV, bills_csv>> :
        st \in {<<65, 75>>, <<65, 49>>}, se \in {<<115>>, <<116>>} }
      \ {RootDir \o <<<<65, 49>>, <<116>>, CSV, bills_csv>>}

Header == <<<<98, 105, 108, 108, 95, 105, 100>>, <<116, 105, 116, 108, 101>>>>

DataRows == {<<<<49>>, <<120>>>>, <<<<50>>, <<121>>>>}

CsvFile(header, rows) == [header |-> header, rows |-> rows]

EmptyFile == CsvFile(<<>>, <<>>)

NoFile == [exists |-> FALSE, rows |-> <<>>]

StreamInit ==
    /\ \E present \in SUBSET BillsPaths :
          bills_files \in [present -> {CsvFile(Header, r) : r \in SeqsUpTo(DataRows, MaxFileRows)}
                                        \cup {EmptyFile}]
    /\ bills_paths = <<>>
    /\ concat_out = NoFile
    /\ next_path = 0
    /\ header_written = FALSE
    /\ total_rows = 0
    /\ spc = "start"

StreamIdle ==
    /\ bills_files = <<>>
    /\ bills_paths = <<>>
    /\ concat_out = NoFile
    /\ next_path = 0
    /\ header_written = FALSE
    /\ total_rows = 0
    /\ spc = "idle"

\* bills_paths = sorted(root_dir.rglob("CSV/bills.csv")); without a file the
\* function returns; otherwise output_path is opened for writing
StreamStart ==
    /\ spc = "start"
    /\ bills_paths' = SortPaths(DOMAIN bills_files)
    /\ IF DOMAIN bills_files = {}
       THEN /\ spc' = "no_files"
            /\ UNCHANGED concat_out
       ELSE /\ spc' = "loop"
            /\ concat_out' = [exists |-> TRUE, rows |-> <<>>]
    /\ next_path' = 1
    /\ UNCHANGED <<bills_files, header_written, total_rows>>
    /\ UNCHANGED notStream

\* Path.parents[n]
parents(path, n) == SubSeq(path, 1, Len(path) - (n + 1))

\* Path.name
name(path) == path[Len(path)]

MutStateOf(path) == letters_only(name(parents(path, 1)))

\* state_clean = letters_only(bills_path.parents[2].name)
StateOf(path) == letters_only(name(parents(path, 2)))

state_column == <<115, 116, 97, 116, 101>>

\* one iteration of "for bills_path in bills_paths", with its try/except
StreamFile ==
    /\ spc = "loop"
    /\ next_path <= Len(bills_paths)
    /\ LET bills_path == bills_paths[next_path]
           infile == bills_files[bills_path]
           state_clean == StateOf(bills_path)
           tagged == [i \in DOMAIN infile.rows |-> Append(infile.rows[i], state_clean)]
       IN  IF infile.header = <<>>
           THEN \* next(reader) raises StopIteration: caught and reported
                UNCHANGED <<concat_out, header_written, total_rows>>
           ELSE /\ concat_out' =
                      [exists |-> TRUE,
                       rows |-> concat_out.rows
                                 \o (IF header_written THEN <<>>
                                     ELSE <<Append(infile.header, state_column)>>)
                                 \o tagged]
                /\ header_written' = TRUE
                /\ total_rows' = total_rows + Len(infile.rows)
    /\ next_path' = next_path + 1
    /\ UNCHANGED <<bills_files, bills_paths, spc>>
    /\ UNCHANGED notStream

StreamDone ==
    /\ spc = "loop"
    /\ next_path > Len(bills_paths)
    /\ spc' = "done"
    /\ UNCHANGED <<bills_files, bills_paths, concat_out, next_path, header_written,
                   total_rows>>
    /\ UNCHANGED notStream

StreamNext == StreamStart \/ StreamFile \/ StreamDone

(***************************************************************************)
(* Corpus Builder, aggregate mode: scripts/concat_legiscan_combined.py.    *)
(* A per-dataset output is the sequence of its records, or a file          *)
(* pd.read_csv cannot read.                                                *)
(***************************************************************************)
MaxCsvFiles == 2

\* records of two bills; two of them share bill_id 1 and differ in a column
CorpusRows ==
    {[bill_id |-> 1, total_yea |-> 0], [bill_id |-> 1, total_yea |-> 5],
     [bill_id |-> 2, total_yea |-> 0]}

Unreadable == [readable |-> FALSE, rows |-> <<>>]

DedupInit ==
    /\ csv_files \in SeqsUpTo({[readable |-> TRUE, rows |-> r] :
                                  r \in SeqsUpTo(CorpusRows, MaxRows)}
                               \cup {Unreadable}, MaxCsvFiles)
    /\ all_bills = <<>>
    /\ next_csv = 1
    /\ saved = NoFile
    /\ before = 0
    /\ after = 0
    /\ rpc = "loop"

DedupIdle ==
    /\ csv_files = <<>>
    /\ all_bills = <<>>
    /\ next_csv = 0
    /\ saved = NoFile
    /\ before = 0
    /\ after = 0
    /\ rpc = "idle"

\* one iteration of "for csv_path in csv_paths": df = pd.read_csv(csv_path);
\* all_bills.append(df), or the exception is reported
ReadCsv ==
    /\ rpc = "loop"
    /\ next_csv <= Len(csv_files)
    /\ all_bills' = IF csv_files[next_csv].readable
                    THEN Append(all_bills, csv_files[next_csv].rows)
                    ELSE all_bills
    /\ next_csv' = next_csv + 1
    /\ UNCHANGED <<csv_files, saved, before, after, rpc>>
    /\ UNCHANGED notDedup

\* pd.concat(all_bills, ignore_index=True)
RECURSIVE concat(_)
concat(frames) == IF frames = <<>> THEN <<>> ELSE Head(frames) \o concat(Tail(frames))

MutDropDuplicates(rows) ==
    SelectSeq([i \in DOMAIN rows |->
                  [row |-> rows[i],
                   dup |-> \E j \in 1..(i - 1) : rows[j].bill_id = rows[i].bill_id]],
              LAMBDA e : ~e.dup)

\* DataFrame.drop_duplicates(): a row equal in every column to an earlier
\* row is dropped, the first occurrence is kept
drop_duplicates(rows) ==
    SelectSeq([i \in DOMAIN rows |->
                  [row |-> rows[i], dup |-> \E j \in 1..(i - 1) : rows[j] = rows[i]]],
              LAMBDA e : ~e.dup)

\* if all_bills: concatenate, drop the duplicates, save and report
WriteCombined ==
    /\ rpc = "loop"
    /\ next_csv > Len(csv_files)
    /\ all_bills # <<>>
    /\ LET combined == concat(all_bills)
           deduped == drop_duplicates(combined)
       IN  /\ before' = Len(combined)
           /\ after' = Len(deduped)
           /\ saved' = [exists |-> TRUE,
                        rows |-> [i \in DOMAIN deduped |-> deduped[i].row]]
    /\ rpc' = "written"
    /\ UNCHANGED <<csv_files, all_bills, next_csv>>
    /\ UNCHANGED notDedup

\* else: print("No CSV files to concatenate")
NothingToWrite ==
    /\ rpc = "loop"
    /\ next_csv > Len(csv_files)
    /\ all_bills = <<>>
    /\ rpc' = "nothing"
    /\ UNCHANGED <<csv_files, all_bills, next_csv, saved, before, after>>
    /\ UNCHANGED notDedup

DedupNext == ReadCsv \/ WriteCombined \/ NothingToWrite

(***************************************************************************)
(* main() of concat_with_join_legiscan.py: gather the datasets of every    *)
(* input, aggregate each of them, then concatenate the files of            *)
(* OUTPUT_DIR.  An input is given with the outcome of resolve_root_dir on  *)
(* it and the datasets discover_csv_dirs finds under its root.             *)
(***************************************************************************)
csv_name == <<99, 115, 118>>

\* the roots of the two inputs, and the dataset directories below them:
\* r/AK/s/csv, r/A1/s/csv, r/AK/t/csv and q/AK/s/csv
RootR == <<114>>

RootQ == <<113>>

DirsUnder(root) ==
    IF root = RootR
    THEN {<<RootR, <<65, 75>>, <<115>>, csv_name>>, <<RootR, <<65, 49>>, <<115>>, csv_name>>,
          <<RootR, <<65, 75>>, <<116>>, csv_name>>}
    ELSE {<<RootQ, <<65, 75>>, <<115>>, csv_name>>}

MainDataset(dir, bills, broken) ==
    Dataset(dir, bills, SamplePeople, SampleSponsors, SampleHistory, SampleDocuments,
            SampleRollcalls, broken)

\* the datasets under a root, in the order discover_csv_dirs returns them
FoundLists(root) ==
    {LET order == SortPaths(DOMAIN f)
     IN  [k \in DOMAIN order |-> MainDataset(order[k], f[order[k]].bills, f[order[k]].broken)] :
        f \in UNION {[present -> [bills : {<<1, 2>>, <<2>>}, broken : BOOLEAN]] :
                        present \in SUBSET DirsUnder(root)}}

InputsOf(root) ==
    {[root |-> root, outcome |-> "ok", found |-> fl] : fl \in FoundLists(root)}
       \cup {[root |-> root, outcome |-> o, found |-> <<>>] : o \in {"no_source", "unsafe"}}

MainInit ==
    /\ \E a \in InputsOf(RootR), b \in InputsOf(RootQ) :
          filenames \in {<<a>>, <<b>>, <<a, b>>, <<b, a>>}
    /\ next_input = 1
    /\ csv_dirs = <<>>
    /\ next_dir = 0
    /\ rows_total = 0
    /\ outputs = <<>>
    /\ combined_file = NoFile
    /\ log = <<>>
    /\ mpc = "gather"

MainIdle ==
    /\ filenames = <<>>
    /\ next_input = 0
    /\ csv_dirs = <<>>
    /\ next_dir = 0
    /\ rows_total = 0
    /\ outputs = <<>>
    /\ combined_file = NoFile
    /\ log = <<>>
    /\ mpc = "idle"

Line(kind, what) == [kind |-> kind, what |-> what]

\* one iteration of "for filename in args.filenames"; an exception of
\* resolve_root_dir is not caught and ends the run
GatherInput ==
    /\ mpc = "gather"
    /\ next_input <= Len(filenames)
    /\ LET inp == filenames[next_input]
       IN  IF inp.outcome # "ok"
           THEN /\ mpc' = "crashed"
                /\ log' = Append(log, Line(inp.outcome, inp.root))
                /\ UNCHANGED <<csv_dirs, next_input>>
           ELSE /\ csv_dirs' = csv_dirs \o inp.found
                /\ log' = IF inp.found = <<>>
                          THEN Append(log, Line("none_under", inp.root))
                          ELSE log
                /\ next_input' = next_input + 1
                /\ UNCHANGED mpc
    /\ UNCHANGED <<filenames, next_dir, rows_total, outputs, combined_file>>
    /\ UNCHANGED notMain

MutGatherDone ==
    /\ mpc = "gather"
    /\ next_input > Len(filenames)
    /\ mpc' = "loop"
    /\ log' = Append(log, Line("found", Len(csv_dirs)))
    /\ next_dir' = 1
    /\ rows_total' = 0
    /\ UNCHANGED <<filenames, next_input, csv_dirs, outputs, combined_file>>
    /\ UNCHANGED notMain

\* if not csv_dirs: sys.exit(1); else the second loop starts
GatherDone ==
    /\ mpc = "gather"
    /\ next_input > Len(filenames)
    /\ IF csv_dirs = <<>>
       THEN /\ mpc' = "exit1"
            /\ log' = Append(log, Line("no_datasets", <<>>))
            /\ UNCHANGED <<next_dir, rows_total>>
       ELSE /\ mpc' = "loop"
            /\ log' = Append(log, Line("found", Len(csv_dirs)))
            /\ next_dir' = 1
            /\ rows_total' = 0
    /\ UNCHANGED <<filenames, next_input, csv_dirs, outputs, combined_file>>
    /\ UNCHANGED notMain

\* f"{state_code}_{session_folder}.csv" in OUTPUT_DIR
derive_output_path(csv_dir) ==
    letters_only(StateDir(csv_dir)) \o <<95>> \o SessionDir(csv_dir) \o <<46, 99, 115, 118>>

\* the try branch: rows = process_csv_dir(csv_dir, out_path); total_rows += rows
WriteDataset ==
    LET ds == csv_dirs[next_dir]
        path == derive_output_path(ds.csv_dir)
        written_rows == to_csv(Aggregated(ds))
    IN  /\ outputs' = (path :> written_rows) @@ outputs
        /\ rows_total' = rows_total + Len(written_rows)
        /\ log' = log \o <<Line("dataset", ds.csv_dir), Line("wrote", ds.csv_dir)>>
        /\ next_dir' = next_dir + 1
        /\ UNCHANGED mpc

MutSkipDataset ==
    /\ log' = log \o <<Line("dataset", csv_dirs[next_dir].csv_dir),
                       Line("error", csv_dirs[next_dir].csv_dir)>>
    /\ mpc' = "crashed"
    /\ UNCHANGED <<outputs, rows_total, next_dir>>

\* the except branch: the error is printed and the loop goes on
SkipDataset ==
    /\ log' = log \o <<Line("dataset", csv_dirs[next_dir].csv_dir),
                       Line("error", csv_dirs[next_dir].csv_dir)>>
    /\ next_dir' = next_dir + 1
    /\ UNCHANGED <<outputs, rows_total, mpc>>

\* one iteration of "for i, csv_dir in enumerate(csv_dirs, 1)"
ProcessDataset ==
    /\ mpc = "loop"
    /\ next_dir <= Len(csv_dirs)
    /\ IF csv_dirs[next_dir].broken THEN SkipDataset ELSE WriteDataset
    /\ UNCHANGED <<filenames, next_input, csv_dirs, combined_file>>
    /\ UNCHANGED notMain

\* print(f"Done. Wrote {total_rows} total rows across {len(csv_dirs)} files.")
LoopDone ==
    /\ mpc = "loop"
    /\ next_dir > Len(csv_dirs)
    /\ log' = Append(log, Line("summary", [rows |-> rows_total, files |-> Len(csv_dirs)]))
    /\ mpc' = "combine"
    /\ UNCHANGED <<filenames, next_input, csv_dirs, next_dir, rows_total, outputs, combined_file>>
    /\ UNCHANGED notMain

\* sorted(OUTPUT_DIR.glob("*.csv")): the names in ascending order
RECURSIVE SortNames(_)
SortNames(names) ==
    IF names = {} THEN <<>>
    ELSE LET least == CHOOSE n \in names : \A o \in names \ {n} : StrLess(n, o)
         IN  <<least>> \o SortNames(names \ {least})

RECURSIVE RowsOfAll(_, _)
RowsOfAll(contents, order) ==
    IF order = <<>> THEN <<>>
    ELSE contents[Head(order)] \o RowsOfAll(contents, Tail(order))

\* the data rows of every file of OUTPUT_DIR are copied to COMBINED_PATH;
\* without a file nothing is written
Combine ==
    /\ mpc = "combine"
    /\ IF DOMAIN outputs = {}
       THEN /\ log' = Append(log, Line("no_session_csvs", <<>>))
            /\ UNCHANGED combined_file
       ELSE /\ combined_file' = [exists |-> TRUE,
                            rows |-> RowsOfAll(outputs, SortNames(DOMAIN outputs))]
            /\ log' = Append(log, Line("combined_file", Len(combined_file'.rows)))
    /\ mpc' = "done"
    /\ UNCHANGED <<filenames, next_input, csv_dirs, next_dir, rows_total, outputs>>
    /\ UNCHANGED notMain

MainNext == GatherInput \/ GatherDone \/ ProcessDataset \/ LoopDone \/ Combine

(***************************************************************************)
(* main() of concat_bills.py: resolve the input, ask before an existing    *)
(* output is overwritten, then call stream_concat.  An answer is the       *)
(* sequence of the characters typed, as character codes.                   *)
(***************************************************************************)
MaxAnswerLen == 2

\* "y", "Y", "n" and the blank
AnswerChars == {121, 89, 110, 32}

Answers == SeqsUpTo(AnswerChars, MaxAnswerLen)

\* input() at the end of the input raises EOFError
EOF == <<-1>>

WHITESPACE == {32, 9, 10, 13, 11, 12}

\* str.strip(): leading and trailing whitespace removed
RECURSIVE lstrip(_)
lstrip(s) == IF s # <<>> /\ Head(s) \in WHITESPACE THEN lstrip(Tail(s)) ELSE s

RECURSIVE rstrip(_)
rstrip(s) ==
    IF s # <<>> /\ s[Len(s)] \in WHITESPACE THEN rstrip(Butlast(s)) ELSE s

strip(s) == rstrip(lstrip(s))

\* str.lower() on ASCII
lower(s) == [i \in DOMAIN s |-> IF s[i] \in 65..90 THEN s[i] + 32 ELSE s[i]]

MutConfirm(s) == s

\* confirm = input("Overwrite? (y/n): ").strip().lower()
Confirm(s) == lower(strip(s))

\* derive_output_path of concat_bills.py, below input_path.parent
concat_output_path(inp) ==
    <<"concatenated-" \o (IF inp.suffix = ".zip" THEN with_suffix(inp, "") ELSE inp).stem
                      \o (IF inp.suffix = ".zip" THEN "" ELSE inp.suffix),
      "all-bills.csv">>

\* an output file left by an earlier run
OldOutput == [exists |-> TRUE, rows |-> << <<<<111, 108, 100>>>> >>]

RawInit ==
    /\ args \in [filename : Inputs, outcome : {"ok", "no_source", "unsafe"},
                 overwrite : BOOLEAN]
    /\ stdin \in Answers \cup {EOF}
    /\ prompted = FALSE
    /\ status = -1
    /\ bpc = "start"
    /\ \E present \in SUBSET BillsPaths :
          bills_files = [q \in present |-> CsvFile(Header, <<<<<<49>>, <<120>>>>>>)]
    /\ concat_out \in {NoFile, OldOutput}
    /\ bills_paths = <<>>
    /\ next_path = 0
    /\ header_written = FALSE
    /\ total_rows = 0
    /\ spc = "idle"

RawIdle ==
    /\ args = <<>>
    /\ stdin = <<>>
    /\ prompted = FALSE
    /\ status = -1
    /\ bpc = "idle"

\* root_dir = resolve_root_dir(input_path); an exception ends the run
RawResolve ==
    /\ bpc = "start"
    /\ IF args.outcome = "ok"
       THEN bpc' = "check" /\ UNCHANGED status
       ELSE bpc' = "crashed" /\ status' = 1
    /\ UNCHANGED <<args, stdin, prompted>>
    /\ UNCHANGED <<streamVars, notRaw>>

\* if output_path.exists() and not args.overwrite: prompt, else stream_concat
RawCheck ==
    /\ bpc = "check"
    /\ IF concat_out.exists /\ ~args.overwrite
       THEN /\ prompted' = TRUE
            /\ bpc' = "prompt"
            /\ UNCHANGED spc
       ELSE /\ bpc' = "concat"
            /\ spc' = "start"
            /\ UNCHANGED prompted
    /\ UNCHANGED <<args, stdin, status>>
    /\ UNCHANGED <<bills_files, bills_paths, concat_out, next_path, header_written,
                   total_rows>>
    /\ UNCHANGED notRaw

\* the answer is read; if confirm != "y": sys.exit(0)
RawAnswer ==
    /\ bpc = "prompt"
    /\ IF stdin = EOF
       THEN bpc' = "crashed" /\ status' = 1 /\ UNCHANGED spc
       ELSE IF Confirm(stdin) # <<121>>
            THEN bpc' = "stopped" /\ status' = 0 /\ UNCHANGED spc
            ELSE bpc' = "concat" /\ spc' = "start" /\ UNCHANGED status
    /\ UNCHANGED <<args, stdin, prompted>>
    /\ UNCHANGED <<bills_files, bills_paths, concat_out, next_path, header_written,
                   total_rows>>
    /\ UNCHANGED notRaw

\* stream_concat has returned and main ends
RawReturn ==
    /\ bpc = "concat"
    /\ spc \in {"done", "no_files"}
    /\ bpc' = "done"
    /\ status' = 0
    /\ UNCHANGED <<args, stdin, prompted>>
    /\ UNCHANGED <<streamVars, notRaw>>

RawNext == RawResolve \/ RawCheck \/ RawAnswer \/ RawReturn \/ StreamNext

(***************************************************************************)
(* The specifications, one per component.                                  *)
(***************************************************************************)
InitArchive ==
    /\ ArcInit /\ DiscIdle /\ AggIdle /\ StreamIdle /\ DedupIdle /\ MainIdle /\ RawIdle

SpecArchive == InitArchive /\ [][ArcNext]_vars

InitDiscover ==
    /\ DiscInit /\ ArcIdle /\ AggIdle /\ StreamIdle /\ DedupIdle /\ MainIdle /\ RawIdle

SpecDiscover == InitDiscover /\ [][DiscNext]_vars

InitAggregate ==
    /\ AggInit /\ ArcIdle /\ DiscIdle /\ StreamIdle /\ DedupIdle /\ MainIdle /\ RawIdle

SpecAggregate == InitAggregate /\ [][AggNext]_vars

InitStream ==
    /\ StreamInit /\ ArcIdle /\ DiscIdle /\ AggIdle /\ DedupIdle /\ MainIdle /\ RawIdle

SpecStream == InitStream /\ [][StreamNext]_vars

InitDedup ==
    /\ DedupInit /\ ArcIdle /\ DiscIdle /\ AggIdle /\ StreamIdle /\ MainIdle /\ RawIdle

SpecDedup == InitDedup /\ [][DedupNext]_vars

InitMain ==
    /\ MainInit /\ ArcIdle /\ DiscIdle /\ AggIdle /\ StreamIdle /\ DedupIdle /\ RawIdle

\* the run is sequential and never waits: a step that can be taken is taken
SpecMain == InitMain /\ [][MainNext]_vars /\ WF_vars(MainNext)

InitRaw ==
    /\ RawInit /\ ArcIdle /\ DiscIdle /\ AggIdle /\ DedupIdle /\ MainIdle

SpecRaw == InitRaw /\ [][RawNext]_vars

(***************************************************************************)
(* Claims about the Safe Extractor and the Archive Resolver.               *)
(***************************************************************************)
\* the resolved target of a member lies outside the destination
Escapes(m) == ~IsPrefix(dir_path, ResolveFrom(<<>>, Join(dir_path, m)))

\* safe_extract_zip was called by the current call and has passed,
\* or stopped at, member i
Reached(i) == idx >= 1 /\ i \in 1..Len(archive) /\ i <= idx

\* C1: every path created or written by safe_extract_zip, in every state
\* during or after extraction, lies under the destination directory.
C1_WrittenUnderDest == \A p \in written : IsPrefix(dir_path, p)

\* an extraction that wrote something and then stopped at an escaping member
C1_Witness ==
    /\ pc = "unsafe"
    /\ written # {}
    /\ HasTraversal(archive[idx])

\* C2 as stated: whenever the archive holds a member with a ".." component,
\* an extraction of it ends with the unsafe-entry error.
C2_Original ==
    (idx >= 1 /\ pc \in {"returned", "os_error", "unsafe"}
       /\ \E i \in 1..Len(archive) : HasTraversal(archive[i]))
    => pc = "unsafe"

\* C2 amended: the unsafe-entry error is raised exactly at the first member
\* the extraction reaches that is not skipped as junk and whose resolved
\* target lies outside the destination; a member with ".." that is skipped
\* as junk or that resolves inside the destination does not raise it.
C2_UnsafeIffEscapes ==
    /\ \A i \in 1..Len(archive) :
          (Reached(i) /\ (i < idx \/ pc = "os_error"))
             => (IsJunk(archive[i]) \/ ~Escapes(archive[i]))
    /\ pc = "unsafe" => (~IsJunk(archive[idx]) /\ Escapes(archive[idx]))

\* an archive with a ".." member that resolves inside the destination was
\* extracted to the end, and one with an escaping member was refused
C2_Witness ==
    /\ pc = "unsafe"
    /\ idx = 2
    /\ HasTraversal(archive[1])
    /\ ~IsJunk(archive[1])

\* the decision table of resolve_root_dir, one row per combination of
\* (archive exists, directory exists, archive newer)
C3_CallTable ==
    LET z == zipExists
        d == dir_path \in dirs
        newer == zipMtime > dirMtime
        same == dirs' = dirs /\ files' = files /\ dirMtime' = dirMtime
        fresh == /\ Under(dir_path, dirs') = {dir_path}
                 /\ Under(dir_path, files') = {}
                 /\ pc' = "extracting" /\ idx' = 1
    IN  calls' = calls + 1 =>
          /\ (~z /\ ~d) => (pc' = "no_source" /\ same)
          /\ (~z /\ d) => (pc' = "returned" /\ same /\ idx' = 0)
          /\ (z /\ ~d) => fresh
          /\ (z /\ d /\ ~newer) => (pc' = "returned" /\ same /\ idx' = 0)
          /\ (z /\ d /\ newer) => fresh

C3_Returned ==
    pc = "returned" =>
       root_dir = CWD \o <<[stem |-> input.stem,
                          suffix |-> IF input.suffix = ".zip" THEN ""
                                     ELSE input.suffix]>>

\* C3: every call of resolve_root_dir follows the decision table (archive
\* exists, directory exists, archive newer) -> (extract, reuse, not found),
\* and a call that returns returns the directory path.
C3_DecisionTable == [](C3_Returned) /\ [][C3_CallTable]_vars

\* archive and directory both exist with equal modification times: the
\* directory is returned with its old content, nothing extracted
C3_Witness ==
    /\ calls = 1
    /\ pc = "returned"
    /\ zipExists
    /\ zipMtime = dirMtime
    /\ OldFile(input) \in files
    /\ idx = 0

(***************************************************************************)
(* Claims about Dataset Discovery.                                         *)
(***************************************************************************)
\* the directories below root that directly hold all six files as files
Datasets ==
    {d \in TreeDirs \ {ROOT} :
        \A i \in DOMAIN REQUIRED_FILES : Append(d, REQUIRED_FILES[i]) \in TreeFiles}

\* C4: discover_csv_dirs returns exactly the directories below root that
\* directly hold all six required files as files, each once, in
\* lexicographic path order.
C4_ExactlyTheDatasets ==
    dpc = "returned" =>
       /\ Range(found) = Datasets
       /\ Len(found) = Cardinality(Datasets)
       /\ \A i, j \in DOMAIN found : i < j => PathLess(found[i], found[j])

\* a tree with a nested dataset, a second dataset, and a directory that has
\* all six names but one of them as a subdirectory
C4_Witness ==
    /\ dpc = "returned"
    /\ Len(found) >= 2
    /\ \E i \in DOMAIN found : Len(found[i]) = 2
    /\ \E d \in DiscDirs : layout[d] = "bogus"
    /\ \E d \in DiscDirs : layout[d] = "partial"

(***************************************************************************)
(* Claims about the Per-Bill Aggregator.                                   *)
(***************************************************************************)
\* the number of rows of a child table that reference bill b
RowsOf(table, b) == Cardinality({i \in DOMAIN table : table[i].bill_id = b})

HasCell(row, c, v) == c \in DOMAIN row /\ row[c] = v

\* C5: in the record of every bill, each of the four counts is the number
\* of rows of its child table that reference the bill.
C5_CountsAreRowCounts ==
    apc = "written" =>
       \A i \in DOMAIN outfile :
          LET b == outfile[i]["bill_id"].int
          IN  /\ HasCell(outfile[i], "sponsor_count", I(RowsOf(dataset.sponsors, b)))
              /\ HasCell(outfile[i], "action_count", I(RowsOf(dataset.history, b)))
              /\ HasCell(outfile[i], "document_count", I(RowsOf(dataset.documents, b)))
              /\ HasCell(outfile[i], "rollcall_count", I(RowsOf(dataset.rollcalls, b)))

\* the name joined to the first position-1 sponsorship of bill b, "" when
\* there is none or when it has no name
PrimaryName(ds, b) ==
    LET ones == {i \in DOMAIN ds.sponsors :
                    ds.sponsors[i].bill_id = b /\ ds.sponsors[i].position = 1}
        first == CHOOSE i \in ones : \A j \in ones : i <= j
        pid == ds.sponsors[first].people_id
    IN  IF ones = {} THEN S("")
        ELSE IF pid \in DOMAIN ds.people /\ ds.people[pid].name # NaN
             THEN ds.people[pid].name
             ELSE S("")

\* C6: in the record of every bill, primary_sponsor is the name joined from
\* the first position-1 sponsorship of the bill, and "" when it has none.
C6_PrimarySponsor ==
    apc = "written" =>
       \A i \in DOMAIN outfile :
          HasCell(outfile[i], "primary_sponsor",
                  PrimaryName(dataset, outfile[i]["bill_id"].int))

RECURSIVE SumField(_, _, _)
SumField(table, b, f) ==
    IF table = <<>> THEN 0
    ELSE (IF Head(table).bill_id = b /\ Head(table)[f] # NaN THEN Head(table)[f].int ELSE 0)
            + SumField(Tail(table), b, f)

\* C7: in the record of every bill, total_yea and total_nay are the sums of
\* yea and nay over the roll calls of the bill, the integer 0 when it has none.
C7_VoteTotals ==
    apc = "written" =>
       \A i \in DOMAIN outfile :
          LET b == outfile[i]["bill_id"].int
          IN  /\ HasCell(outfile[i], "total_yea", I(SumField(dataset.rollcalls, b, "yea")))
              /\ HasCell(outfile[i], "total_nay", I(SumField(dataset.rollcalls, b, "nay")))

\* two bills written, one with two roll calls and one with none
C7_Witness ==
    /\ apc = "written"
    /\ Len(outfile) = 2
    /\ \E i, j \in DOMAIN outfile :
          /\ RowsOf(dataset.rollcalls, outfile[i]["bill_id"].int) = 2
          /\ outfile[i]["total_nay"] = I(6)
          /\ RowsOf(dataset.rollcalls, outfile[j]["bill_id"].int) = 0
          /\ outfile[j]["total_yea"] = I(0)

(***************************************************************************)
(* Claims about the Corpus Builder.                                        *)
(***************************************************************************)
\* the paths found, in ascending order
InPathOrder == CHOOSE q \in Perms(DOMAIN bills_files) :
                  \A i, j \in DOMAIN q : i < j => PathLess(q[i], q[j])

\* the state directory of the layout <root>/<state>/<session>/CSV/bills.csv
StateDirOf(path) == path[Len(path) - 3]

Letters(str) == SelectSeq(str, LAMBDA c : (65 <= c /\ c <= 90) \/ (97 <= c /\ c <= 122))

\* the data rows of the files q[k..], each with the state of its own file
RECURSIVE TaggedFrom(_, _)
TaggedFrom(q, k) ==
    IF k > Len(q) THEN <<>>
    ELSE [i \in DOMAIN bills_files[q[k]].rows |->
             bills_files[q[k]].rows[i] \o <<Letters(StateDirOf(q[k]))>>]
         \o TaggedFrom(q, k + 1)

\* C8: for N >= 1 files with the same header, the output is that header
\* plus "state", then every data row of every file in sorted path order,
\* each with the state code of its own file.
C8_HeaderThenAllRows ==
    (/\ spc = "done"
     /\ \A p \in DOMAIN bills_files : bills_files[p].header = Header)
    => /\ concat_out.exists
       /\ concat_out.rows = <<Header \o <<state_column>>>> \o TaggedFrom(InPathOrder, 1)
       /\ total_rows = Len(concat_out.rows) - 1

\* three files of two states, all with rows, concatenated
C8_Witness ==
    /\ spc = "done"
    /\ Cardinality(DOMAIN bills_files) = 3
    /\ \A p \in DOMAIN bills_files :
          bills_files[p].header = Header /\ Len(bills_files[p].rows) = 2
    /\ Len(concat_out.rows) = 7

\* the rows of the readable per-dataset outputs from file k on, in order
RECURSIVE RowsFrom(_)
RowsFrom(k) ==
    IF k > Len(csv_files) THEN <<>>
    ELSE (IF csv_files[k].readable THEN csv_files[k].rows ELSE <<>>) \o RowsFrom(k + 1)

Occurrences(rows, r) == Cardinality({i \in DOMAIN rows : rows[i] = r})

\* C9: deduplication never adds a row, the corpus holds each distinct row
\* of the concatenated outputs exactly once, the reported difference is the
\* number of rows equal to an earlier row, and rows that differ in any
\* column are all kept.
C9_DedupExact ==
    rpc = "written" =>
       LET all == RowsFrom(1)
       IN  /\ after <= before
           /\ before = Len(all)
           /\ after = Len(saved.rows)
           /\ \A i \in DOMAIN all : Occurrences(saved.rows, all[i]) = 1
           /\ \A i \in DOMAIN saved.rows : Occurrences(all, saved.rows[i]) >= 1
           /\ before - after =
                 Cardinality({i \in DOMAIN all : \E j \in 1..(i - 1) : all[j] = all[i]})

\* two outputs share a record, and hold two records of bill 1 that differ:
\* one row is removed and both records of bill 1 are kept
C9_Witness ==
    /\ rpc = "written"
    /\ before - after = 1
    /\ Occurrences(saved.rows, [bill_id |-> 1, total_yea |-> 0]) = 1
    /\ Occurrences(saved.rows, [bill_id |-> 1, total_yea |-> 5]) = 1
    /\ Len(all_bills) = 2

(***************************************************************************)
(* Claims about the per-dataset loop of main.                              *)
(***************************************************************************)
\* the loop is at a dataset whose aggregation raises
AtBadDataset ==
    mpc = "loop" /\ next_dir \in DOMAIN csv_dirs /\ csv_dirs[next_dir].broken

Printed(kind, what) ==
    \E k \in DOMAIN log : log[k].kind = kind /\ log[k].what = what

\* every dataset of the list has been attempted, a failed one reported
AllAttempted ==
    \A k \in DOMAIN csv_dirs :
       /\ Printed("dataset", csv_dirs[k].csv_dir)
       /\ csv_dirs[k].broken => Printed("error", csv_dirs[k].csv_dir)

\* the step taken at a dataset whose aggregation raises: the error is
\* printed, the loop moves on and the outputs stay as they are
C10_SkipStep ==
    AtBadDataset =>
       /\ mpc' = "loop"
       /\ next_dir' = next_dir + 1
       /\ outputs' = outputs
       /\ \E k \in DOMAIN log' :
             /\ k > Len(log)
             /\ log'[k].kind = "error"
             /\ log'[k].what = csv_dirs[next_dir].csv_dir

\* once the loop has started the run is in the loop, at the combining step
\* or finished; in the loop there is always a next dataset or the loop's end
C10_LoopNeverAborts ==
    next_dir >= 1 =>
       /\ mpc \in {"loop", "combine", "done"}
       /\ mpc = "loop" => next_dir \in 1..(Len(csv_dirs) + 1)

\* the loop leaves only to the combining step, after the last dataset
C10_LoopExit ==
    mpc = "loop" /\ mpc' # "loop" =>
       mpc' = "combine" /\ next_dir > Len(csv_dirs) /\ AllAttempted'

\* C10: when the aggregation of a dataset fails, the error is reported, the
\* loop moves to the next dataset, the outputs written so far stay as they
\* are, the run does not end there, every dataset of the list is attempted
\* and the loop is left only to the combining step.
C10_BadDatasetIsSkipped ==
    /\ [][C10_SkipStep /\ C10_LoopExit]_vars
    /\ [](C10_LoopNeverAborts)
    /\ [](mpc \in {"combine", "done"} => AllAttempted)

\* a run that wrote a dataset, skipped a bad one, wrote a later one and went
\* on to the combining step
C10_Witness ==
    /\ mpc = "combine"
    /\ \E i, j, k \in DOMAIN csv_dirs :
          /\ i < j /\ j < k
          /\ ~csv_dirs[i].broken /\ csv_dirs[j].broken /\ ~csv_dirs[k].broken
          /\ derive_output_path(csv_dirs[i].csv_dir) \in DOMAIN outputs
          /\ derive_output_path(csv_dirs[k].csv_dir) \in DOMAIN outputs

(***************************************************************************)
(* Claims about the gathering loop of main.                                *)
(***************************************************************************)
\* the first loop has gone through every input
GatherFinished == mpc = "gather" /\ next_input > Len(filenames)

\* the first loop is at an input that resolves and holds no dataset
AtEmptyInput ==
    /\ mpc = "gather"
    /\ next_input \in DOMAIN filenames
    /\ filenames[next_input].outcome = "ok"
    /\ filenames[next_input].found = <<>>

C11_ExitStep ==
    /\ (GatherFinished /\ csv_dirs = <<>>) => mpc' = "exit1"
    /\ (GatherFinished /\ csv_dirs # <<>>) => mpc' = "loop"
    /\ mpc' = "exit1" => (GatherFinished /\ csv_dirs = <<>>)
    /\ AtEmptyInput =>
          /\ mpc' = "gather"
          /\ next_input' = next_input + 1
          /\ csv_dirs' = csv_dirs

C11_NothingWritten ==
    mpc = "exit1" =>
       /\ csv_dirs = <<>>
       /\ outputs = <<>>
       /\ combined_file = NoFile
       /\ \A k \in DOMAIN log : log[k].kind \notin {"dataset", "wrote", "combined_file"}

\* C11: when no dataset directory is found under any input the run exits
\* with status 1 and has written neither a per-dataset output nor the
\* combined file; it exits so only then, and an input without a dataset
\* only moves the gathering loop to the next input.
C11_ExitWithoutDatasets == [][C11_ExitStep]_vars /\ [](C11_NothingWritten)

\* two inputs, neither of which holds a dataset: the run has exited
C11_Witness ==
    /\ mpc = "exit1"
    /\ Len(filenames) = 2
    /\ Printed("none_under", RootR)
    /\ Printed("none_under", RootQ)

(***************************************************************************)
(* Claims about main of concat_bills.py.                                   *)
(***************************************************************************)
\* the prompt was shown and an answer to it was read
Answered == prompted /\ bpc # "prompt" /\ stdin # EOF

\* stream_concat was never called and the output file is as it was
NotInvoked == spc = "idle" /\ concat_out = OldOutput

\* C12 as stated: after the prompt, every answer other than "y" ends the
\* run with status 0, stream_concat not invoked and the output unchanged.
C12_Original ==
    (Answered /\ stdin # <<121>>) =>
       (bpc = "stopped" /\ status = 0 /\ NotInvoked)

\* whether to prompt is decided by output_path.exists() and args.overwrite
C12_PromptStep ==
    bpc = "check" =>
       /\ prompted' <=> (concat_out.exists /\ ~args.overwrite)
       /\ ~prompted' => (bpc' = "concat" /\ spc' = "start")
       /\ prompted' => (bpc' = "prompt" /\ spc' = "idle")

C12_Answer ==
    /\ (Answered /\ lower(strip(stdin)) # <<121>>) =>
          (bpc = "stopped" /\ status = 0 /\ NotInvoked)
    /\ (Answered /\ lower(strip(stdin)) = <<121>>) =>
          (bpc \in {"concat", "done"} /\ spc # "idle")
    /\ (prompted /\ bpc # "prompt" /\ stdin = EOF) =>
          (bpc = "crashed" /\ status = 1 /\ NotInvoked)
    /\ prompted => (args.outcome = "ok" /\ ~args.overwrite)
    /\ spc # "idle" => bpc \in {"concat", "done"}

\* C12 amended: once the input has resolved, the run prompts exactly when
\* the output exists and --overwrite is not given, and otherwise calls
\* stream_concat without a prompt; an answer that is not "y" after its
\* surrounding whitespace is removed and it is lower-cased ends the run with
\* status 0, stream_concat not invoked and the output unchanged; an answer
\* that is "y" after that treatment ("Y", " y") lets stream_concat run.
C12_PromptAndDecline == [][C12_PromptStep]_vars /\ [](C12_Answer)

\* the answer " Y" was given to the prompt and the old output was replaced
C12_Witness ==
    /\ prompted
    /\ stdin = <<32, 89>>
    /\ bpc = "done"
    /\ concat_out # OldOutput

(***************************************************************************)
(* Claims about the abort of an extraction.                                *)
(***************************************************************************)
\* the loop of safe_extract_zip is at a member that is not skipped and whose
\* resolved target lies outside the destination
AtUnsafeEntry ==
    /\ pc = "extracting"
    /\ idx \in DOMAIN archive
    /\ ~InMacosx(archive[idx])
    /\ ~EndsWithDSStore(archive[idx])
    /\ Escapes(archive[idx])

\* what the members before member i create below the destination
MadeBefore(i) ==
    UNION {Prefixes(ResolveFrom(<<>>, Join(dir_path, archive[k]))) : k \in 1..(i - 1)}

C13_AbortStep ==
    /\ AtUnsafeEntry =>
          /\ pc' = "unsafe"
          /\ idx' = idx
          /\ UNCHANGED <<dirs, files, written>>
    /\ (pc = "unsafe" /\ calls' = calls) => UNCHANGED <<pc, idx, dirs, files, written>>

C13_NothingLater ==
    pc = "unsafe" =>
       /\ idx \in DOMAIN archive
       /\ written \subseteq MadeBefore(idx)
       /\ Under(dir_path, files) \subseteq MadeBefore(idx)
       /\ Under(dir_path, dirs) \subseteq MadeBefore(idx) \cup {dir_path}

\* C13: at a member that fails the destination check the extraction stops
\* with the unsafe-entry error and writes nothing at that step; after the
\* error this call writes nothing more, and what the destination holds was
\* made by the members before the offending one.
C13_AbortAtUnsafeEntry == [][C13_AbortStep]_vars /\ [](C13_NothingLater)

\* the first member was extracted and remains, the second one was refused
C13_Witness ==
    /\ pc = "unsafe"
    /\ idx = 2
    /\ ~archive[1].isdir
    /\ ResolveFrom(<<>>, Join(dir_path, archive[1])) \in files \cap written

(***************************************************************************)
(* Claims about the history aggregate.                                     *)
(***************************************************************************)
\* the history rows of bill b, in the order of the input table
HistoryOf(b) == SelectSeq(dataset.history, LAMBDA r : r.bill_id = b)

\* (date, sequence) of row r is at most that of row q, both dates present
PairLeq(r, q) ==
    /\ r.date # NaN /\ q.date # NaN
    /\ \/ StrLess(r.date.text, q.date.text)
       \/ r.date = q.date /\ r.sequence <= q.sequence

\* C14 as stated: last_history_action is the action of the row of the bill
\* whose (date, sequence) pair is the greatest, whatever the input order.
C14_Original ==
    apc = "written" =>
       \A i \in DOMAIN outfile :
          LET rows == HistoryOf(outfile[i]["bill_id"].int)
          IN  \A k \in DOMAIN rows :
                 (\A j \in DOMAIN rows : PairLeq(rows[j], rows[k]))
                    => HasCell(outfile[i], "last_history_action", rows[k].action)

\* row r comes before row q in the order of the sort: by date as text, a
\* missing date after every date, then by sequence
PairBefore(r, q) ==
    \/ r.date # NaN /\ q.date = NaN
    \/ r.date # NaN /\ q.date # NaN /\ StrLess(r.date.text, q.date.text)
    \/ r.date = q.date /\ r.sequence < q.sequence

\* the rows of the bill that no other row of it comes after
LastRows(rows) ==
    {k \in DOMAIN rows : \A j \in DOMAIN rows : ~PairBefore(rows[k], rows[j])}

\* C14 amended: last_history_action is the action of the last row of the
\* bill in the order by (date, sequence), dates compared as text and a
\* missing date ranked after every date; of several rows with that last
\* pair it is the one latest in the input table, so the value does not
\* depend on the input order when the pairs of the bill are distinct.
C14_LastInSortOrder ==
    apc = "written" =>
       \A i \in DOMAIN outfile :
          LET rows == HistoryOf(outfile[i]["bill_id"].int)
          IN  rows # <<>> =>
                 LET last == CHOOSE k \in LastRows(rows) : \A j \in LastRows(rows) : j <= k
                 IN  HasCell(outfile[i], "last_history_action", rows[last].action)

\* a bill whose two history rows share (date, sequence) and differ in action:
\* the later row of the input gives the value
C14_Witness ==
    /\ apc = "written"
    /\ Len(dataset.history) = 2
    /\ dataset.history[1].bill_id = 2 /\ dataset.history[2].bill_id = 2
    /\ dataset.history[1].date = dataset.history[2].date
    /\ dataset.history[1].sequence = dataset.history[2].sequence
    /\ dataset.history[1].action # dataset.history[2].action
    /\ \E i \in DOMAIN outfile :
          /\ outfile[i]["bill_id"] = I(2)
          /\ outfile[i]["last_history_action"] = dataset.history[2].action

(***************************************************************************)
(* Claims about the document aggregate.                                    *)
(***************************************************************************)
\* the values of column c of the documents of bill b that are not missing,
\* in the order of the input table
Present(table, b, c) ==
    LET rows == SelectSeq(table, LAMBDA r : r.bill_id = b /\ r[c] # NaN)
    IN  [k \in DOMAIN rows |-> rows[k][c].str]

\* each value once, at the place it is first seen
RECURSIVE FirstSeen(_)
FirstSeen(values) ==
    IF values = <<>> THEN <<>>
    ELSE LET rest == FirstSeen(Butlast(values))
             last == values[Len(values)]
         IN  IF \E k \in DOMAIN rest : rest[k] = last THEN rest ELSE Append(rest, last)

\* the values with " | " between them
RECURSIVE Bar(_)
Bar(values) ==
    IF values = <<>> THEN ""
    ELSE IF Len(values) = 1 THEN values[1]
    ELSE Bar(Butlast(values)) \o " | " \o values[Len(values)]

\* C15: for every bill with document rows, document_types is the " | "
\* joined list of its distinct non-missing document_type values in
\* first-seen order and document_urls the " | " joined list of all its
\* non-missing url values in input order, duplicates retained.
C15_DocumentLists ==
    apc = "written" =>
       \A i \in DOMAIN outfile :
          LET b == outfile[i]["bill_id"].int
          IN  RowsOf(dataset.documents, b) > 0 =>
                 /\ HasCell(outfile[i], "document_types",
                            S(Bar(FirstSeen(Present(dataset.documents, b, "document_type")))))
                 /\ HasCell(outfile[i], "document_urls",
                            S(Bar(Present(dataset.documents, b, "url"))))

\* two documents of bill 2 with the same type and the same url: the type is
\* listed once and the url twice
C15_Witness ==
    /\ apc = "written"
    /\ Len(dataset.documents) = 2
    /\ \E i \in DOMAIN outfile :
          /\ outfile[i]["bill_id"] = I(2)
          /\ outfile[i]["document_types"] = S("amend")
          /\ outfile[i]["document_urls"] = S("u2 | u2")

(***************************************************************************)
(* Claims about the sponsor aggregate.                                     *)
(***************************************************************************)
\* rows in ascending position, rows of equal position in their given order
RECURSIVE ByPosition(_)
ByPosition(rows) ==
    IF rows = <<>> THEN <<>>
    ELSE LET k == CHOOSE k \in DOMAIN rows :
                     /\ \A j \in DOMAIN rows : rows[k].position <= rows[j].position
                     /\ \A j \in 1..(k - 1) : rows[j].position > rows[k].position
         IN  <<rows[k]>>
                \o ByPosition(SubSeq(rows, 1, k - 1) \o SubSeq(rows, k + 1, Len(rows)))

\* the value of a column of people.csv joined to a sponsorship
Joined(ds, row, c) ==
    IF row.people_id \in DOMAIN ds.people THEN ds.people[row.people_id][c] ELSE NaN

\* what the sponsorships of bill b list for column c of people.csv
SponsorList(ds, b, c) ==
    LET rows == ByPosition(SelectSeq(ds.sponsors, LAMBDA r : r.bill_id = b))
        kept == SelectSeq(rows, LAMBDA r : Joined(ds, r, c) # NaN)
    IN  [k \in DOMAIN kept |-> Joined(ds, kept[k], c).str]

\* C16: for every bill with sponsorship rows, sponsor_names is the " | "
\* joined list of the joined names in ascending position order, without the
\* sponsorships whose person is unmatched or has no name; sponsor_parties
\* likewise for the parties; sponsor_count counts every sponsorship row.
C16_SponsorLists ==
    apc = "written" =>
       \A i \in DOMAIN outfile :
          LET b == outfile[i]["bill_id"].int
          IN  RowsOf(dataset.sponsors, b) > 0 =>
                 /\ HasCell(outfile[i], "sponsor_names", S(Bar(SponsorList(dataset, b, "name"))))
                 /\ HasCell(outfile[i], "sponsor_parties",
                            S(Bar(SponsorList(dataset, b, "party"))))
                 /\ HasCell(outfile[i], "sponsor_count", I(RowsOf(dataset.sponsors, b)))

\* bill 2 is sponsored at position 2 by a person of people.csv and at
\* position 1 by an unmatched one, given in that order: one name, count 2
C16_Witness ==
    /\ apc = "written"
    /\ dataset.sponsors = <<[bill_id |-> 2, people_id |-> 1, position |-> 2],
                            [bill_id |-> 2, people_id |-> 3, position |-> 1]>>
    /\ \E i \in DOMAIN outfile :
          /\ outfile[i]["bill_id"] = I(2)
          /\ outfile[i]["sponsor_names"] = S("Ann")
          /\ outfile[i]["sponsor_count"] = I(2)

(***************************************************************************)
(* Claims about the count columns of the output.                           *)
(***************************************************************************)
\* C17: in every record process_csv_dir writes, each of the six count
\* columns is present and holds a non-negative integer.
C17_CountColumnsPresent ==
    apc = "written" =>
       \A i \in DOMAIN outfile :
          \A c \in count_cols :
             /\ c \in DOMAIN outfile[i]
             /\ DOMAIN outfile[i][c] = {"int"}
             /\ outfile[i][c].int >= 0

(***************************************************************************)
(* Claims about inputs that cannot be resolved.                            *)
(***************************************************************************)
\* the run has ended
Ended == mpc \in {"crashed", "exit1", "done"}

\* C18: an input that has neither archive nor directory, or whose archive
\* holds an unsafe entry, only loses its own datasets: at the end of the
\* run every dataset of every other input has been aggregated or reported.
C18_OtherInputsProcessed ==
    Ended =>
       \A k \in DOMAIN filenames :
          filenames[k].outcome = "ok" =>
             \A d \in DOMAIN filenames[k].found :
                Printed("dataset", filenames[k].found[d].csv_dir)

(***************************************************************************)
(* Claims about the names of the per-dataset outputs.                      *)
(***************************************************************************)
\* the loop is over, the directories gathered are distinct and none failed
AllDistinctAndWritten ==
    /\ mpc \in {"combine", "done"}
    /\ \A j, k \in DOMAIN csv_dirs : j # k => csv_dirs[j].csv_dir # csv_dirs[k].csv_dir
    /\ \A k \in DOMAIN csv_dirs : ~csv_dirs[k].broken

\* C19: when N distinct dataset directories are gathered and all of them
\* aggregate, N output files exist after the loop, each holding the records
\* of its own dataset.
C19_OneOutputPerDataset ==
    AllDistinctAndWritten =>
       /\ Cardinality(DOMAIN outputs) = Len(csv_dirs)
       /\ \A k \in DOMAIN csv_dirs :
             /\ derive_output_path(csv_dirs[k].csv_dir) \in DOMAIN outputs
             /\ Len(outputs[derive_output_path(csv_dirs[k].csv_dir)]) = Len(csv_dirs[k].bills)

(***************************************************************************)
(* Claims about successive calls of the resolver.                          *)
(***************************************************************************)
\* C20: after a call that failed on an unsafe entry, the next call on the
\* same path with the archive unchanged extracts again; it does not return
\* the directory the failed extraction left behind.
C20_FailedStaysFailed ==
    [][pc = "unsafe" => pc' \in {"unsafe", "extracting"}]_vars

(***************************************************************************)
(* Claims about the summary of the aggregation loop.                       *)
(***************************************************************************)
\* the datasets of the list that were aggregated and written
Succeeded == {k \in DOMAIN csv_dirs : ~csv_dirs[k].broken}

\* the number of records written for the first n datasets of the list
RECURSIVE RecordsWritten(_)
RecordsWritten(n) ==
    IF n = 0 THEN 0
    ELSE RecordsWritten(n - 1)
            + (IF csv_dirs[n].broken THEN 0 ELSE Len(csv_dirs[n].bills))

\* C21: the summary printed after the loop reports as total the sum of the
\* record counts of the datasets written in this run, and as number of
\* files the number of datasets that were aggregated successfully.
C21_SummaryIsAccurate ==
    \A k \in DOMAIN log :
       log[k].kind = "summary" =>
          /\ log[k].what.rows = RecordsWritten(Len(csv_dirs))
          /\ log[k].what.files = Cardinality(Succeeded)

\* the part of C21 about the total
C21_RowsOnly ==
    \A k \in DOMAIN log :
       log[k].kind = "summary" => log[k].what.rows = RecordsWritten(Len(csv_dirs))

====
